---- MODULE Spec2Model ----
(***************************************************************************)
(* A model of oksvg's SvgIcon (svg_icon.go): the viewbox-to-target         *)
(* transform, the render operations and the file writer saveImage.         *)
(*                                                                         *)
(* Numbers are Go float64 values.  A finite float64 is a dyadic rational   *)
(* (-1)^s * m * 2^e whose mantissa m has at most 53 bits; the model keeps  *)
(* m as an odd arbitrary-precision natural (little-endian limbs of 15      *)
(* bits) so that every value has one representation, and rounds every      *)
(* arithmetic result to 53 bits, to nearest, ties to even, as the hardware *)
(* does.  Infinities and NaN are separate kinds.  Exponents in the model   *)
(* stay far inside float64's range, so overflow to infinity and gradual    *)
(* underflow do not arise from finite operands.                            *)
(***************************************************************************)
EXTENDS Integers, Sequences, FiniteSets, TLC

(***************************************************************************)
(* Arbitrary-precision naturals: sequences of limbs, least significant     *)
(* first, no leading zero limb; zero is the empty sequence.                *)
(***************************************************************************)
LimbBits == 15
Base == 2^LimbBits

BLimb(a, i) == IF i >= 1 /\ i <= Len(a) THEN a[i] ELSE 0

RECURSIVE BTrim(_)
BTrim(a) ==
    IF a = <<>> THEN a
    ELSE IF a[Len(a)] = 0 THEN BTrim(SubSeq(a, 1, Len(a) - 1))
    ELSE a

RECURSIVE BAddFrom(_, _, _, _)
BAddFrom(a, b, i, c) ==
    IF i > Len(a) /\ i > Len(b)
    THEN IF c = 0 THEN <<>> ELSE <<c>>
    ELSE LET t == BLimb(a, i) + BLimb(b, i) + c
         IN  <<t % Base>> \o BAddFrom(a, b, i + 1, t \div Base)

BAdd(a, b) == BAddFrom(a, b, 1, 0)

RECURSIVE BSubFrom(_, _, _, _)
BSubFrom(a, b, i, br) ==
    IF i > Len(a) THEN <<>>
    ELSE LET t == a[i] - BLimb(b, i) - br
         IN  IF t < 0 THEN <<t + Base>> \o BSubFrom(a, b, i + 1, 1)
             ELSE <<t>> \o BSubFrom(a, b, i + 1, 0)

\* a - b for a >= b
BSub(a, b) == BTrim(BSubFrom(a, b, 1, 0))

RECURSIVE BCmpAt(_, _, _)
BCmpAt(a, b, i) ==
    IF i = 0 THEN 0
    ELSE IF a[i] > b[i] THEN 1
    ELSE IF a[i] < b[i] THEN -1
    ELSE BCmpAt(a, b, i - 1)

\* -1, 0 or 1 as a < b, a = b, a > b
BCmp(a, b) ==
    IF Len(a) > Len(b) THEN 1
    ELSE IF Len(a) < Len(b) THEN -1
    ELSE BCmpAt(a, b, Len(a))

RECURSIVE BMulSmallFrom(_, _, _, _)
BMulSmallFrom(a, k, i, c) ==
    IF i > Len(a)
    THEN IF c = 0 THEN <<>> ELSE <<c>>
    ELSE LET t == a[i] * k + c
         IN  <<t % Base>> \o BMulSmallFrom(a, k, i + 1, t \div Base)

\* a * k for a limb k
BMulSmall(a, k) == IF k = 0 THEN <<>> ELSE BMulSmallFrom(a, k, 1, 0)

BShiftLimbs(a, n) == IF a = <<>> THEN a ELSE [i \in 1..n |-> 0] \o a

RECURSIVE BMulFrom(_, _, _)
BMulFrom(a, b, i) ==
    IF i > Len(b) THEN <<>>
    ELSE BAdd(BShiftLimbs(BMulSmall(a, b[i]), i - 1), BMulFrom(a, b, i + 1))

BMul(a, b) == IF Len(b) = 1 THEN BMulSmall(a, b[1]) ELSE BMulFrom(a, b, 1)

\* a * 2^n
BShl(a, n) ==
    LET r == n % LimbBits
        p == 2^r
        q == 2^(LimbBits - r)
        s == [i \in 1..(Len(a) + 1) |->
                ((BLimb(a, i) * p) % Base) + (BLimb(a, i - 1) \div q)]
    IN  IF a = <<>> THEN a
        ELSE BShiftLimbs(IF r = 0 THEN a ELSE BTrim(s), n \div LimbBits)

\* floor(a / 2^n)
BShr(a, n) ==
    LET k == n \div LimbBits
        r == n % LimbBits
        p == 2^r
        q == 2^(LimbBits - r)
        d == IF k >= Len(a) THEN <<>> ELSE SubSeq(a, k + 1, Len(a))
    IN  IF r = 0 THEN d
        ELSE BTrim([i \in 1..Len(d) |-> (d[i] \div p) + ((BLimb(d, i + 1) % p) * q)])

BitLenSmall(x) == CHOOSE n \in 1..LimbBits : 2^(n - 1) <= x /\ x < 2^n

BBitLen(a) == IF a = <<>> THEN 0 ELSE LimbBits * (Len(a) - 1) + BitLenSmall(a[Len(a)])

\* bit j (bit 0 is the least significant)
BBit(a, j) == (BLimb(a, (j \div LimbBits) + 1) \div (2^(j % LimbBits))) % 2

\* are the n low bits of a all zero
BLowZero(a, n) ==
    /\ \A i \in 1..(n \div LimbBits) : BLimb(a, i) = 0
    /\ BLimb(a, (n \div LimbBits) + 1) % (2^(n % LimbBits)) = 0

\* the number of trailing zero bits of a # 0
BTrailingZeros(a) ==
    LET i == CHOOSE j \in 1..Len(a) : a[j] # 0 /\ \A h \in 1..(j - 1) : a[h] = 0
        t == CHOOSE n \in 0..(LimbBits - 1) : a[i] % (2^n) = 0 /\ (a[i] \div (2^n)) % 2 = 1
    IN  LimbBits * (i - 1) + t

\* the largest d in lo..hi with b * d <= r, by bisection
RECURSIVE BDigit(_, _, _, _)
BDigit(r, b, lo, hi) ==
    IF lo = hi THEN lo
    ELSE LET mid == (lo + hi + 1) \div 2
         IN  IF BCmp(BMulSmall(b, mid), r) <= 0
             THEN BDigit(r, b, mid, hi)
             ELSE BDigit(r, b, lo, mid - 1)

\* long division, one quotient limb a step: the limbs j .. 1 of a are
\* still to bring down, q holds the quotient limbs found, r the remainder
RECURSIVE BDivStep(_, _, _, _, _)
BDivStep(a, b, j, q, r) ==
    IF j = 0 THEN <<BTrim(q), r>>
    ELSE LET r2 == BTrim(<<a[j]>> \o r)
             d == BDigit(r2, b, 0, Base - 1)
         IN  BDivStep(a, b, j - 1, <<d>> \o q, BSub(r2, BMulSmall(b, d)))

\* short division by a limb k: the limbs j .. 1 of a are still to bring
\* down, q holds the quotient limbs found, r the remainder
RECURSIVE BDivSmallStep(_, _, _, _, _)
BDivSmallStep(a, k, j, q, r) ==
    IF j = 0 THEN <<BTrim(q), IF r = 0 THEN <<>> ELSE <<r>> >>
    ELSE LET t == r * Base + a[j]
         IN  BDivSmallStep(a, k, j - 1, <<t \div k>> \o q, t % k)

\* <<floor(a / b), a mod b>> for b # 0
BDivMod(a, b) ==
    IF Len(b) = 1 THEN BDivSmallStep(a, b[1], Len(a), <<>>, 0)
    ELSE BDivStep(a, b, Len(a), <<>>, <<>>)

\* the value of a natural that fits a machine word of the model checker
RECURSIVE BToInt(_)
BToInt(a) == IF a = <<>> THEN 0 ELSE a[1] + Base * BToInt(Tail(a))

RECURSIVE BFromInt(_)
BFromInt(n) == IF n = 0 THEN <<>> ELSE <<n % Base>> \o BFromInt(n \div Base)

(***************************************************************************)
(* float64                                                                 *)
(***************************************************************************)
MantBits == 53

NaN == [k |-> "nan", s |-> 0, m |-> <<>>, e |-> 0]
Inf(s) == [k |-> "inf", s |-> s, m |-> <<>>, e |-> 0]
Zero(s) == [k |-> "fin", s |-> s, m |-> <<>>, e |-> 0]

IsNaN(a) == a.k = "nan"
IsInf(a) == a.k = "inf"
IsFinite(a) == a.k = "fin"
IsZero(a) == a.k = "fin" /\ a.m = <<>>

\* the one representation of (-1)^s * m * 2^e, for m of at most 53 bits
Canon(s, m, e) ==
    IF m = <<>> THEN Zero(s)
    ELSE LET t == BTrailingZeros(m)
         IN  [k |-> "fin", s |-> s, m |-> BShr(m, t), e |-> e + t]

\* (-1)^s * m * 2^e, plus a non-zero amount below the lowest bit of m if
\* sticky, rounded to 53 bits to nearest, ties to even
Round(s, m, e, sticky) ==
    LET n == BBitLen(m)
        d == n - MantBits
        q == BShr(m, d)
        half == BBit(m, d - 1) = 1
        rest == sticky \/ ~BLowZero(m, d - 1)
        up == half /\ (rest \/ BBit(q, 0) = 1)
    IN  IF d <= 0 THEN Canon(s, m, e)
        ELSE Canon(s, IF up THEN BAdd(q, <<1>>) ELSE q, e + d)

\* a float64 constant n * 2^e for a small integer n
F(n, e) == Canon(IF n < 0 THEN 1 ELSE 0, BFromInt(IF n < 0 THEN -n ELSE n), e)

FNeg(a) == IF IsNaN(a) THEN a ELSE [a EXCEPT !.s = 1 - a.s]

\* a + b (Go's + on float64)
FAdd(a, b) ==
    IF IsNaN(a) \/ IsNaN(b) THEN NaN
    ELSE IF IsInf(a) THEN (IF IsInf(b) /\ a.s # b.s THEN NaN ELSE a)
    ELSE IF IsInf(b) THEN b
    ELSE IF IsZero(a) /\ IsZero(b) THEN Zero(IF a.s = 1 /\ b.s = 1 THEN 1 ELSE 0)
    ELSE IF IsZero(a) THEN b
    ELSE IF IsZero(b) THEN a
    ELSE LET e == IF a.e < b.e THEN a.e ELSE b.e
             ma == BShl(a.m, a.e - e)
             mb == BShl(b.m, b.e - e)
             c == BCmp(ma, mb)
         IN  IF a.s = b.s THEN Round(a.s, BAdd(ma, mb), e, FALSE)
             ELSE IF c = 0 THEN Zero(0)
             ELSE IF c > 0 THEN Round(a.s, BSub(ma, mb), e, FALSE)
             ELSE Round(b.s, BSub(mb, ma), e, FALSE)

\* a - b
FSub(a, b) == FAdd(a, FNeg(b))

\* a * b
FMul(a, b) ==
    LET s == (a.s + b.s) % 2
    IN  IF IsNaN(a) \/ IsNaN(b) THEN NaN
        ELSE IF IsInf(a) \/ IsInf(b)
             THEN (IF IsZero(a) \/ IsZero(b) THEN NaN ELSE Inf(s))
        ELSE IF IsZero(a) \/ IsZero(b) THEN Zero(s)
        ELSE Round(s, BMul(a.m, b.m), a.e + b.e, FALSE)

\* a / b: the quotient of the mantissas is taken to at least 55 bits, the
\* remainder is the sticky bit
FDiv(a, b) ==
    LET s == (a.s + b.s) % 2
        k0 == MantBits + 2 + BBitLen(b.m) - BBitLen(a.m)
        k == IF k0 < 0 THEN 0 ELSE k0
        qr == BDivMod(BShl(a.m, k), b.m)
    IN  IF IsNaN(a) \/ IsNaN(b) THEN NaN
        ELSE IF IsInf(a) THEN (IF IsInf(b) THEN NaN ELSE Inf(s))
        ELSE IF IsInf(b) THEN Zero(s)
        ELSE IF IsZero(b) THEN (IF IsZero(a) THEN NaN ELSE Inf(s))
        ELSE IF IsZero(a) THEN Zero(s)
        ELSE IF b.m = <<1>> THEN [a EXCEPT !.s = s, !.e = a.e - b.e]
        ELSE Round(s, qr[1], a.e - b.e - k, qr[2] # <<>>)

\* a == b (Go's == : a NaN equals nothing, the two zeros are equal)
FEq(a, b) ==
    /\ ~IsNaN(a) /\ ~IsNaN(b)
    /\ \/ a = b
       \/ IsZero(a) /\ IsZero(b)

\* a < b (false when either is a NaN)
FLt(a, b) ==
    LET e == IF a.e < b.e THEN a.e ELSE b.e
        c == BCmp(BShl(a.m, a.e - e), BShl(b.m, b.e - e))
    IN  IF IsNaN(a) \/ IsNaN(b) THEN FALSE
        ELSE IF IsInf(a) THEN a.s = 1 /\ ~(IsInf(b) /\ b.s = 1)
        ELSE IF IsInf(b) THEN b.s = 0
        ELSE IF IsZero(a) /\ IsZero(b) THEN FALSE
        ELSE IF IsZero(a) THEN b.s = 0
        ELSE IF IsZero(b) THEN a.s = 1
        ELSE IF a.s # b.s THEN a.s = 1
        ELSE IF a.s = 0 THEN c < 0
        ELSE c > 0

FLe(a, b) == FLt(a, b) \/ FEq(a, b)

\* n <= a < n + 1 for the integer n
IsFloorOf(a, n) == FLe(F(n, 0), a) /\ FLt(a, F(n + 1, 0))

\* the int a conversion cannot represent a float64 as: Go leaves the result
\* to the implementation (math.MinInt64 on amd64; 0 for a NaN and a saturated
\* value on arm64).  One negative stand-in covers the values no image can have.
OutOfRange == -1
Int64Bits == 63

\* the part of a finite a before the binary point, as an integer
FTrunc(a) ==
    LET n == IF a.e >= 0 THEN BToInt(BShl(a.m, a.e)) ELSE BToInt(BShr(a.m, -a.e))
    IN  IF a.s = 1 THEN -n ELSE n

\* int(a): the values the conversion can yield
ToInt(a) ==
    IF IsNaN(a) THEN {OutOfRange, 0}
    ELSE IF IsInf(a) THEN {OutOfRange}
    ELSE IF BBitLen(a.m) + a.e > Int64Bits THEN {OutOfRange}
    ELSE {FTrunc(a)}

(***************************************************************************)
(* rasterx.Matrix2D, as SvgIcon uses it                                    *)
(***************************************************************************)
Matrix2D(a, b, c, d, e, f) == [A |-> a, B |-> b, C |-> c, D |-> d, E |-> e, F |-> f]

Identity == Matrix2D(F(1, 0), F(0, 0), F(0, 0), F(1, 0), F(0, 0), F(0, 0))

\* a * b
Mult(a, b) ==
    Matrix2D(FAdd(FMul(a.A, b.A), FMul(a.C, b.B)),
             FAdd(FMul(a.B, b.A), FMul(a.D, b.B)),
             FAdd(FMul(a.A, b.C), FMul(a.C, b.D)),
             FAdd(FMul(a.B, b.C), FMul(a.D, b.D)),
             FAdd(FAdd(FMul(a.A, b.E), FMul(a.C, b.F)), a.E),
             FAdd(FAdd(FMul(a.B, b.E), FMul(a.D, b.F)), a.F))

Translate(a, x, y) == Mult(a, Matrix2D(F(1, 0), F(0, 0), F(0, 0), F(1, 0), x, y))

Scale(a, x, y) == Mult(a, Matrix2D(x, F(0, 0), F(0, 0), y, F(0, 0), F(0, 0)))

\* the image <<x2, y2>> of the point (x1, y1)
TransformPt(a, x1, y1) ==
    << FAdd(FAdd(FMul(x1, a.A), FMul(y1, a.C)), a.E),
       FAdd(FAdd(FMul(x1, a.B), FMul(y1, a.D)), a.F) >>

\* a == b on Matrix2D values
MEq(a, b) ==
    /\ FEq(a.A, b.A) /\ FEq(a.B, b.B) /\ FEq(a.C, b.C)
    /\ FEq(a.D, b.D) /\ FEq(a.E, b.E) /\ FEq(a.F, b.F)

(***************************************************************************)
(* The inputs the model draws from                                         *)
(***************************************************************************)
\* TransformIcon calls allowed since the transform was last replaced
MaxCompose == 2

VBox(x, y, w, h) == [X |-> x, Y |-> y, W |-> w, H |-> h]

\* viewboxes a parsed document can have, with positive width and height
ValidViewBoxes ==
    { VBox(F(0, 0), F(0, 0), F(11, 0), F(11, 0)),
      VBox(F(1, 0), F(2, 0), F(4, 0), F(2, 0)) }

\* viewboxes with a zero width or height
DegenerateViewBoxes ==
    { VBox(F(0, 0), F(0, 0), F(0, 0), F(2, 0)),
      VBox(F(0, 0), F(0, 0), F(4, 0), F(0, 0)) }

PathLists == { <<"p1", "p2">> }

\* width and height arguments of the render operations: -1, 0.5, 2.5, 15
RenderDims == { F(-1, 0), F(1, -1), F(5, -1), F(15, 0) }

\* arguments of SetTarget: origins (0, 0) and (3, 1); sizes 15 x 15, 15 x 2.5, 0 x 15
TargetOrigins == { <<F(0, 0), F(0, 0)>>, <<F(3, 0), F(1, 0)>> }
TargetSizes == { <<F(15, 0), F(15, 0)>>, <<F(15, 0), F(5, -1)>>, <<F(0, 0), F(15, 0)>> }

\* width and height arguments of the resizing Save operations: -1, 15
SaveDims == { F(-1, 0), F(15, 0) }

\* arguments of TransformIcon: a scaling by (2, 3) and a translation by (1, -1)
Matrices ==
    { Matrix2D(F(2, 0), F(0, 0), F(0, 0), F(3, 0), F(0, 0), F(0, 0)),
      Matrix2D(F(1, 0), F(0, 0), F(0, 0), F(1, 0), F(1, 0), F(-1, 0)) }

(***************************************************************************)
(* SvgIcon                                                                 *)
(***************************************************************************)
VARIABLES
    ViewBox,    \* SvgIcon.ViewBox
    SVGPaths,   \* SvgIcon.SVGPaths
    Transform,  \* SvgIcon.Transform
    img,        \* what the last render call returned
    hist,       \* the call running or returning: its name, arguments, the transform before it
    tprev,      \* the last call, if it was a TransformIcon: its matrix, the transform before it
    depth,      \* TransformIcon calls since the transform was last replaced
    pc,         \* where a running saveImage stands; "idle" when none runs
    asPng,      \* saveImage's asPng argument
    fopen,      \* file handles open
    trace,      \* the steps of the current or last saveImage
    ret         \* what the last Save call returned

vars == <<ViewBox, SVGPaths, Transform, img, hist, tprev, depth, pc, asPng, fopen, trace, ret>>

\* the receiver s of a method call
Icon == [ViewBox |-> ViewBox, SVGPaths |-> SVGPaths, Transform |-> Transform]

NoImage == [status |-> "none", w |-> 0, h |-> 0, calls |-> <<>>]

NoPrev == [set |-> FALSE, m |-> Identity, pre |-> Identity]

NoCall ==
    [op |-> "none", x |-> F(0, 0), y |-> F(0, 0), w |-> F(0, 0), h |-> F(0, 0),
     m |-> Identity, pre |-> Identity, pdepth |-> 0, prev |-> NoPrev]

\* the record of a call that replaces or composes the transform
CallT(op, x, y, w, h, m) ==
    [op |-> op, x |-> x, y |-> y, w |-> w, h |-> h, m |-> m,
     pre |-> Transform, pdepth |-> depth,
     prev |-> IF op = "TransformIcon" THEN tprev ELSE NoPrev]

\* the record of a render or Save call
Call(op, x, y, w, h, m) ==
    [op |-> op, x |-> x, y |-> y, w |-> w, h |-> h, m |-> m,
     pre |-> Identity, pdepth |-> 0, prev |-> NoPrev]

\* Draw: the DrawTransformed calls it makes, in order
Draw(s, opacity) ==
    [i \in 1..Len(s.SVGPaths) |->
        [path |-> s.SVGPaths[i], opacity |-> opacity, t |-> s.Transform]]

\* SetTarget with the existing matrix factored in
SetTargetFactored(s, x, y, w, h) ==
    LET scaleW == FDiv(w, s.ViewBox.W)
        scaleH == FDiv(h, s.ViewBox.H)
    IN  Scale(Translate(s.Transform, FSub(x, s.ViewBox.X), FSub(y, s.ViewBox.Y)),
              scaleW, scaleH)

\* SetTarget: the Transform it assigns
SetTarget(s, x, y, w, h) ==
    LET scaleW == FDiv(w, s.ViewBox.W)
        scaleH == FDiv(h, s.ViewBox.H)
    IN  Scale(Translate(Identity, FSub(x, s.ViewBox.X), FSub(y, s.ViewBox.Y)),
              scaleW, scaleH)

\* the width resolved with the comparison turned round
ResolveWidthInverted(s, width) ==
    IF FLt(F(1, 0), width) THEN s.ViewBox.W ELSE width

\* AsImageResize: the width it resolves
ResolveWidth(s, width) ==
    IF FLt(width, F(1, 0)) THEN s.ViewBox.W ELSE width

\* the height resolved with the ratio turned upside down
ResolveHeightInverted(s, width, height) ==
    IF FLt(height, F(1, 0))
    THEN LET sc == FDiv(s.ViewBox.W, width) IN FMul(s.ViewBox.H, sc)
    ELSE height

\* AsImageResize: the height it resolves, given the resolved width
ResolveHeight(s, width, height) ==
    IF FLt(height, F(1, 0))
    THEN LET sc == FDiv(width, s.ViewBox.W) IN FMul(s.ViewBox.H, sc)
    ELSE height

\* asImage: image.NewRGBA panics on a negative or huge rectangle; otherwise
\* the image has the size asked for and Draw has run on it with opacity 1.0
asImage(s, w, h) ==
    IF w < 0 \/ h < 0
    THEN [status |-> "panic", w |-> 0, h |-> 0, calls |-> <<>>]
    ELSE [status |-> "ok", w |-> w, h |-> h, calls |-> Draw(s, F(1, 0))]

\* TransformIcon multiplying on the right
TransformIconRight(s, mtx) == Mult(s.Transform, mtx)

\* TransformIcon: the Transform it assigns
TransformIcon(s, mtx) == Mult(mtx, s.Transform)

\* saveImage: the step after os.Create
AfterCreate(ok) == IF ok THEN "encode" ELSE "return"

\* an encode failure returning with no deferred Close
AfterEncodeNoDefer(ok) == IF ok THEN "flush" ELSE "return"

\* saveImage: the step after png.Encode or jpeg.Encode; f.Close is deferred
AfterEncode(ok) == IF ok THEN "flush" ELSE "close"

\* saveImage: the step after w.Flush
AfterFlush(ok) == "close"

Init ==
    /\ ViewBox \in ValidViewBoxes
    /\ SVGPaths \in PathLists
    /\ Transform = Identity
    /\ img = NoImage
    /\ hist = NoCall
    /\ tprev = NoPrev
    /\ depth = 0
    /\ pc = "idle"
    /\ asPng = FALSE
    /\ fopen = 0
    /\ trace = <<>>
    /\ ret = "none"

InitDegenerate ==
    /\ ViewBox \in DegenerateViewBoxes
    /\ SVGPaths \in PathLists
    /\ Transform = Identity
    /\ img = NoImage
    /\ hist = NoCall
    /\ tprev = NoPrev
    /\ depth = 0
    /\ pc = "idle"
    /\ asPng = FALSE
    /\ fopen = 0
    /\ trace = <<>>
    /\ ret = "none"

\* a call that is no Save call
NoSave == /\ pc' = "return" /\ UNCHANGED <<asPng, fopen, trace>> /\ ret' = "none"

CallSetTarget(x, y, w, h) ==
    /\ pc = "idle"
    /\ Transform' = SetTarget(Icon, x, y, w, h)
    /\ hist' = CallT("SetTarget", x, y, w, h, Identity)
    /\ tprev' = NoPrev
    /\ depth' = 0
    /\ img' = NoImage
    /\ NoSave
    /\ UNCHANGED <<ViewBox, SVGPaths>>

CallTransformIcon(mtx) ==
    /\ pc = "idle"
    /\ depth < MaxCompose
    /\ Transform' = TransformIcon(Icon, mtx)
    /\ hist' = CallT("TransformIcon", F(0, 0), F(0, 0), F(0, 0), F(0, 0), mtx)
    /\ tprev' = [set |-> TRUE, m |-> mtx, pre |-> Transform]
    /\ depth' = depth + 1
    /\ img' = NoImage
    /\ NoSave
    /\ UNCHANGED <<ViewBox, SVGPaths>>

\* AsImageResize, up to the value it returns
Resize(width, height) ==
    LET rw == ResolveWidth(Icon, width)
        rh == ResolveHeight(Icon, rw, height)
        t == SetTarget(Icon, F(0, 0), F(0, 0), rw, rh)
    IN  /\ Transform' = t
        /\ depth' = 0
        /\ tprev' = NoPrev
        /\ \E iw \in ToInt(rw), ih \in ToInt(rh) :
              img' = asImage([Icon EXCEPT !.Transform = t], iw, ih)
        /\ UNCHANGED <<ViewBox, SVGPaths>>

\* AsImage, up to the value it returns
Natural ==
    /\ \E iw \in ToInt(ViewBox.W), ih \in ToInt(ViewBox.H) :
          img' = asImage(Icon, iw, ih)
    /\ tprev' = NoPrev
    /\ UNCHANGED <<ViewBox, SVGPaths, Transform, depth>>

CallAsImageResize(width, height) ==
    /\ pc = "idle"
    /\ Resize(width, height)
    /\ hist' = Call("AsImageResize", F(0, 0), F(0, 0), width, height, Identity)
    /\ NoSave

CallAsImage ==
    /\ pc = "idle"
    /\ Natural
    /\ hist' = Call("AsImage", F(0, 0), F(0, 0), F(0, 0), F(0, 0), Identity)
    /\ NoSave

\* saveImage is entered once its image argument has been evaluated; a render
\* that panics never reaches it
EnterSave(png) ==
    /\ asPng' = png
    /\ UNCHANGED <<fopen, trace>>
    /\ IF img'.status = "ok"
       THEN pc' = "create" /\ ret' = "pending"
       ELSE pc' = "return" /\ ret' = "panic"

CallSaveAsPngResized(w, h) ==
    /\ pc = "idle"
    /\ Resize(w, h)
    /\ hist' = Call("SaveAsPngResized", F(0, 0), F(0, 0), w, h, Identity)
    /\ EnterSave(TRUE)

CallSaveAsJpegResized(w, h) ==
    /\ pc = "idle"
    /\ Resize(w, h)
    /\ hist' = Call("SaveAsJpegResized", F(0, 0), F(0, 0), w, h, Identity)
    /\ EnterSave(FALSE)

CallSaveAsPng ==
    /\ pc = "idle"
    /\ Natural
    /\ hist' = Call("SaveAsPng", F(0, 0), F(0, 0), F(0, 0), F(0, 0), Identity)
    /\ EnterSave(TRUE)

CallSaveAsJpeg ==
    /\ pc = "idle"
    /\ Natural
    /\ hist' = Call("SaveAsJpeg", F(0, 0), F(0, 0), F(0, 0), F(0, 0), Identity)
    /\ EnterSave(FALSE)

Icon0 == UNCHANGED <<ViewBox, SVGPaths, Transform, img, hist, tprev, depth, asPng>>

\* f, err := os.Create(filePath); if err != nil { return err }; defer f.Close()
SaveCreate ==
    /\ pc = "create"
    /\ \E ok \in BOOLEAN :
          /\ pc' = AfterCreate(ok)
          /\ fopen' = IF ok THEN fopen + 1 ELSE fopen
          /\ trace' = Append(trace, IF ok THEN "create" ELSE "createFail")
          /\ ret' = IF ok THEN ret ELSE "errCreate"
    /\ Icon0

\* png.Encode(w, m) or jpeg.Encode(w, m, nil); on an error, return it
SaveEncode ==
    /\ pc = "encode"
    /\ \E ok \in BOOLEAN :
          /\ pc' = AfterEncode(ok)
          /\ trace' = Append(trace, IF ok THEN "encode" ELSE "encodeFail")
          /\ ret' = IF ok THEN ret ELSE "errEncode"
    /\ UNCHANGED fopen
    /\ Icon0

\* w.Flush(); on an error, return it; else return nil
SaveFlush ==
    /\ pc = "flush"
    /\ \E ok \in BOOLEAN :
          /\ pc' = AfterFlush(ok)
          /\ trace' = Append(trace, IF ok THEN "flush" ELSE "flushFail")
          /\ ret' = IF ok THEN "nil" ELSE "errFlush"
    /\ UNCHANGED fopen
    /\ Icon0

\* the deferred f.Close() runs as saveImage returns; its error is dropped
SaveClose ==
    /\ pc = "close"
    /\ \E ok \in BOOLEAN :
          trace' = Append(trace, IF ok THEN "close" ELSE "closeFail")
    /\ fopen' = fopen - 1
    /\ pc' = "return"
    /\ UNCHANGED ret
    /\ Icon0

\* the caller has the call's results; nothing of the call but the icon remains
Return ==
    /\ pc = "return"
    /\ pc' = "idle"
    /\ img' = NoImage
    /\ hist' = NoCall
    /\ trace' = <<>>
    /\ ret' = "none"
    /\ UNCHANGED <<ViewBox, SVGPaths, Transform, tprev, depth, asPng, fopen>>

Next ==
    \/ \E o \in TargetOrigins, d \in TargetSizes :
          CallSetTarget(o[1], o[2], d[1], d[2])
    \/ \E m \in Matrices : CallTransformIcon(m)
    \/ \E w \in RenderDims, h \in RenderDims : CallAsImageResize(w, h)
    \/ CallAsImage
    \/ \E w \in SaveDims, h \in SaveDims : CallSaveAsPngResized(w, h)
    \/ \E w \in SaveDims, h \in SaveDims : CallSaveAsJpegResized(w, h)
    \/ CallSaveAsPng
    \/ CallSaveAsJpeg
    \/ SaveCreate
    \/ SaveEncode
    \/ SaveFlush
    \/ SaveClose
    \/ Return

Spec == Init /\ [][Next]_vars

SpecDegenerate == InitDegenerate /\ [][Next]_vars

(***************************************************************************)
(* Properties                                                              *)
(***************************************************************************)
ResizeOps == {"AsImageResize", "SaveAsPngResized", "SaveAsJpegResized"}
NaturalOps == {"AsImage", "SaveAsPng", "SaveAsJpeg"}
SaveOps == {"SaveAsPngResized", "SaveAsJpegResized", "SaveAsPng", "SaveAsJpeg"}

\* |a - b| <= 2^-20
Near(a, b) == LET d == FSub(a, b) IN FLe(F(-1, -20), d) /\ FLe(d, F(1, -20))

\* the matrix that scales by (w / W, h / H) and translates by (x - X, y - Y)
TargetMatrix(vb, x, y, w, h) ==
    Matrix2D(FDiv(w, vb.W), F(0, 0), F(0, 0), FDiv(h, vb.H), FSub(x, vb.X), FSub(y, vb.Y))

\* floor(h * rw / w) in exact arithmetic, for positive finite h, rw, w
ExactFloorMulDiv(h, rw, w) ==
    LET num == BMul(h.m, rw.m)
        e == h.e + rw.e - w.e
    IN  IF e >= 0 THEN BToInt(BDivMod(BShl(num, e), w.m)[1])
        ELSE BToInt(BDivMod(num, BShl(w.m, -e))[1])

\* C1: after SetTarget(x, y, w, h) the transform maps the viewbox origin
\* (X, Y) to (x, y) and the far corner (X + W, Y + H) to (x + w, y + h)
\* (read up to float64 rounding, for a target rectangle of positive size)
C1_TargetMapsCorners ==
    (hist.op = "SetTarget" /\ FLt(F(0, 0), hist.w) /\ FLt(F(0, 0), hist.h)) =>
        LET o == TransformPt(Transform, ViewBox.X, ViewBox.Y)
            c == TransformPt(Transform, FAdd(ViewBox.X, ViewBox.W), FAdd(ViewBox.Y, ViewBox.H))
        IN  /\ Near(o[1], hist.x) /\ Near(o[2], hist.y)
            /\ Near(c[1], FAdd(hist.x, hist.w)) /\ Near(c[2], FAdd(hist.y, hist.h))

\* C2, as stated: for w > 0 and h > 0 the resized render returns a buffer
\* floor(w) wide and floor(h) high
C2_Original ==
    (hist.op \in ResizeOps /\ FLt(F(0, 0), hist.w) /\ FLt(F(0, 0), hist.h)) =>
        /\ img.status = "ok"
        /\ IsFloorOf(hist.w, img.w)
        /\ IsFloorOf(hist.h, img.h)

\* C2, amended: for w >= 1 and h >= 1 the resized render returns a buffer
\* floor(w) wide and floor(h) high
C2_Amended ==
    (hist.op \in ResizeOps /\ FLe(F(1, 0), hist.w) /\ FLe(F(1, 0), hist.h)) =>
        /\ img.status = "ok"
        /\ IsFloorOf(hist.w, img.w)
        /\ IsFloorOf(hist.h, img.h)

C2_Witness ==
    /\ hist.op = "AsImageResize"
    /\ hist.w = F(5, -1) /\ hist.h = F(15, 0)
    /\ img.status = "ok" /\ img.w = 2 /\ img.h = 15

\* the width a resized render with a sentinel height works from: the
\* viewbox width for the sentinel -1, the requested width when it is given
C3_Covers == hist.op \in ResizeOps /\ hist.h = F(-1, 0)
                /\ (hist.w = F(-1, 0) \/ FLe(F(1, 0), hist.w))
C3_rw == IF hist.w = F(-1, 0) THEN ViewBox.W ELSE hist.w

\* C3, as stated: with the height -1 the buffer is floor(rw) wide and
\* floor(H * rw / W) high
C3_Original ==
    C3_Covers =>
        /\ img.status = "ok"
        /\ IsFloorOf(C3_rw, img.w)
        /\ img.h = ExactFloorMulDiv(ViewBox.H, C3_rw, ViewBox.W)

\* C3, amended: with the height -1 the buffer is floor(rw) wide and its
\* height is within one pixel of floor(H * rw / W); it is exactly
\* (floor(W), floor(H)) when the width is -1 too
C3_Amended ==
    C3_Covers =>
        LET ef == ExactFloorMulDiv(ViewBox.H, C3_rw, ViewBox.W)
        IN  /\ img.status = "ok"
            /\ IsFloorOf(C3_rw, img.w)
            /\ img.h \in {ef - 1, ef, ef + 1}
            /\ hist.w = F(-1, 0) => IsFloorOf(ViewBox.H, img.h)

\* the 11 x 11 viewbox rendered 15 wide comes out 14 high
C3_Witness ==
    /\ hist.op = "AsImageResize"
    /\ hist.h = F(-1, 0) /\ hist.w = F(15, 0)
    /\ ViewBox.W = F(11, 0) /\ ViewBox.H = F(11, 0)
    /\ img.w = 15 /\ img.h = 14

\* C4: after SetTarget(x, y, w, h) the transform is a value of the viewbox
\* and (x, y, w, h) alone, whatever the transform was before
C4_SetTargetReplaces ==
    hist.op = "SetTarget" =>
        MEq(Transform, TargetMatrix(ViewBox, hist.x, hist.y, hist.w, hist.h))

\* a SetTarget that followed two TransformIcon calls
C4_Witness ==
    /\ hist.op = "SetTarget"
    /\ hist.pdepth = 2
    /\ ~MEq(hist.pre, Identity)
    /\ ~MEq(hist.pre, Transform)

FAbs(a) == IF IsNaN(a) THEN a ELSE [a EXCEPT !.s = 0]

\* a and b differ by no more than 2^-40 * max(1, |b|)
NearRel(a, b) ==
    LET d == FAbs(FSub(a, b))
    IN  FLe(d, F(1, -40)) \/ FLe(d, FMul(F(1, -40), FAbs(b)))

MNear(a, b) ==
    /\ NearRel(a.A, b.A) /\ NearRel(a.B, b.B) /\ NearRel(a.C, b.C)
    /\ NearRel(a.D, b.D) /\ NearRel(a.E, b.E) /\ NearRel(a.F, b.F)

\* C5, as stated: TransformIcon(M2) right after TransformIcon(M1) on T
\* leaves the transform TransformIcon(M2 * M1) leaves on T
C5_Original ==
    (hist.op = "TransformIcon" /\ hist.prev.set) =>
        MEq(Transform, Mult(Mult(hist.m, hist.prev.m), hist.prev.pre))

\* C5, amended: TransformIcon(M) leaves M * transform, the old transform
\* the right factor; TransformIcon(M2) right after TransformIcon(M1) on T
\* leaves M2 * (M1 * T), which is the transform TransformIcon(M2 * M1)
\* leaves on T up to float64 rounding
C5_Amended ==
    hist.op = "TransformIcon" =>
        /\ MEq(Transform, Mult(hist.m, hist.pre))
        /\ hist.prev.set =>
              /\ MEq(hist.pre, Mult(hist.prev.m, hist.prev.pre))
              /\ MNear(Transform, Mult(Mult(hist.m, hist.prev.m), hist.prev.pre))

\* a second TransformIcon in a row, where the order of the factors matters
\* and the two ways of composing differ in the last bit
C5_Witness ==
    /\ hist.op = "TransformIcon"
    /\ hist.prev.set
    /\ ~MEq(Transform, Mult(hist.pre, hist.m))
    /\ ~MEq(Transform, Mult(Mult(hist.m, hist.prev.m), hist.prev.pre))

MFinite(a) ==
    /\ IsFinite(a.A) /\ IsFinite(a.B) /\ IsFinite(a.C)
    /\ IsFinite(a.D) /\ IsFinite(a.E) /\ IsFinite(a.F)

\* C6: on a viewbox of zero width or height, SetTarget and the renders that
\* compute a transform report DegenerateGeometry and leave no transform or
\* buffer made from an infinite or undefined scale
C6_DegenerateRejected ==
    (hist.op \in ({"SetTarget"} \cup ResizeOps)
        /\ (IsZero(ViewBox.W) \/ IsZero(ViewBox.H))) =>
        /\ ret = "DegenerateGeometry"
        /\ MFinite(Transform)
        /\ img.status # "ok"

Fails == {"createFail", "encodeFail", "flushFail", "closeFail"}
Closes(t) == Cardinality({i \in 1..Len(t) : t[i] \in {"close", "closeFail"}})
Has(t, ev) == \E i \in 1..Len(t) : t[i] = ev

\* C7: saveImage's steps run in the order create, encode, flush, close,
\* return; a failed create ends the call with no handle and no encode; a
\* failed encode skips the flush; a created file is closed once before the
\* return on every path; nil is returned only after the flush that follows
\* the encode
C7_SaveOrder ==
    /\ fopen = (IF pc \in {"encode", "flush", "close"} THEN 1 ELSE 0)
    /\ (pc = "return" /\ hist.op \in SaveOps) =>
          /\ trace \in { <<"createFail">> } \cup
                { <<"create", e, c>> : e \in {"encodeFail"}, c \in {"close", "closeFail"} } \cup
                { <<"create", "encode", f, c>> :
                      f \in {"flush", "flushFail"}, c \in {"close", "closeFail"} }
          /\ Closes(trace) = (IF trace[1] = "create" THEN 1 ELSE 0)
          /\ ret = "nil" => SubSeq(trace, 1, 3) = <<"create", "encode", "flush">>
          /\ ret = "errCreate" <=> trace[1] = "createFail"
          /\ ret = "errEncode" <=> Has(trace, "encodeFail")
          /\ ret = "errFlush" <=> Has(trace, "flushFail")

\* the encode failed and the handle was closed before the return
C7_Witness ==
    /\ pc = "return"
    /\ hist.op = "SaveAsPng"
    /\ trace = <<"create", "encodeFail", "close">>
    /\ ret = "errEncode"
    /\ fopen = 0

\* C8: a Save call in which a step failed does not return plain success
C8_NoSwallowedFailure ==
    (pc = "return" /\ hist.op \in SaveOps /\ \E i \in 1..Len(trace) : trace[i] \in Fails) =>
        ret # "nil"

Det(a) == FSub(FMul(a.A, a.D), FMul(a.B, a.C))

\* C9: the transform is always an invertible affine matrix with non-zero
\* scale components
C9_TransformInvertible ==
    /\ MFinite(Transform)
    /\ ~IsZero(Det(Transform))
    /\ ~IsZero(Transform.A) /\ ~IsZero(Transform.D)

\* C10: every render draws every path in stored order, with opacity 1.0 and
\* the transform set-target gives for origin (0, 0) and the buffer's size
C10_RenderSetsTarget ==
    (hist.op \in (ResizeOps \cup NaturalOps) /\ img.status = "ok") =>
        LET rw == IF hist.op \in NaturalOps THEN ViewBox.W ELSE ResolveWidth(Icon, hist.w)
            rh == IF hist.op \in NaturalOps THEN ViewBox.H
                  ELSE ResolveHeight(Icon, rw, hist.h)
        IN  /\ Len(img.calls) = Len(SVGPaths)
            /\ \A i \in 1..Len(img.calls) :
                  /\ img.calls[i].path = SVGPaths[i]
                  /\ img.calls[i].opacity = F(1, 0)
                  /\ MEq(img.calls[i].t, TargetMatrix(ViewBox, F(0, 0), F(0, 0), rw, rh))

====
